---- MODULE Spec2Model ----
(***************************************************************************)
(* Model of bot.py: the Ozon catalogue synchronisation (OzonSellerAPI,     *)
(* load_real_products, refresh_products_callback) and the position based   *)
(* browsing of the cache (show_products, show_product_detail,              *)
(* handle_product_action).                                                 *)
(*                                                                         *)
(* Python values are modelled as follows.  A dict is a function whose      *)
(* DOMAIN is the set of its keys.  A list is a sequence.  A text is a      *)
(* string.  A JSON item without the key 'product_id' carries NoKey.  A     *)
(* decimal of the price structure is a record (kind, neg, whole, frac)     *)
(* whose integer part is what int(float(.)) keeps.  The Cyrillic literal   *)
(* of the placeholder name is written in Latin letters because the module  *)
(* is plain ASCII.                                                         *)
(***************************************************************************)
EXTENDS Integers, Sequences, FiniteSets, TLC

VARIABLES
    OZON_CLIENT_ID,        \* bot.py:18, "" when the variable is not set
    OZON_API_KEY,          \* bot.py:17, "" when the variable is not set
    products_cache,        \* bot.py:21, the global position -> product dict
    pc,                    \* position of the running refresh, "idle" if none
    products_count_before, \* refresh_products_callback, bot.py:386
    products_count_after,  \* refresh_products_callback, bot.py:388
    items,                 \* get_products_with_prices: items, bot.py:61
    product_ids,           \* get_products_with_prices: product_ids, bot.py:69
    prices_data,           \* _get_products_prices_v5: prices_data
    i,                     \* _get_products_prices_v5: loop variable i
    descriptions_data,     \* _get_products_descriptions_v1: descriptions_data
    j,                     \* _get_products_descriptions_v1: index of product_id
    products_data,         \* load_real_products: products_data, bot.py:295
    products,              \* load_real_products: local dict products
    product_counter,       \* load_real_products: product_counter
    shown,                 \* position carried by the buttons of the message
    resp,                  \* the remote answers received by the last refresh
    calls,                 \* the remote calls issued by the last refresh
    failed,                \* a call of the last refresh failed and it emptied the store
    afterFailure,          \* value of failed when the last refresh began
    again,                 \* the last refresh received the answers of the one before
    walk,                  \* presses of one button in a row on one snapshot
    asked,                 \* show_product_detail: product_index of the last press
    batches,               \* _get_products_prices_v5: the batch of every request sent
    price_record,          \* _extract_price_from_v5: the argument price_item
    price                  \* get_products_with_prices: price, bot.py:109

vars == <<OZON_CLIENT_ID, OZON_API_KEY, products_cache, pc,
          products_count_before, products_count_after, items, product_ids,
          prices_data, i, descriptions_data, j, products_data, products,
          product_counter, shown, resp, calls, failed, afterFailure, again,
          walk, asked, batches, price_record, price>>

-----------------------------------------------------------------------------
(* Bounds of the model *)

\* longest listing answered by v3/product/list in the refresh specification
MaxItems == 2

\* longest listing of the browsing specification
MaxShown == 3

\* largest number of identifiers handed to _get_products_prices_v5 alone
MaxIds == 120

\* largest number of identifiers handed to _get_products_descriptions_v1 alone
MaxLookups == 4

\* largest integer part of a price handed to _extract_price_from_v5 alone
MaxWhole == 2

\* longest listing handed to the loop that forms the products alone
MaxFormItems == 3

\* longest name, offer code and description of the text specification
MaxText == 202

-----------------------------------------------------------------------------
(* Program constants *)

BatchSize == 50
DescLimit == 200
DescKeep == 197
Quantity == 10

Ellipsis == "..."

-----------------------------------------------------------------------------
(* Python values *)

NoKey == -1

EmptyDict == [k \in {} |-> 0]

\* d[k] = v of a dict
Put(d, k, v) == [x \in (DOMAIN d) \cup {k} |-> IF x = k THEN v ELSE d[x]]

Ch(s, n) == SubSeq(s, n, n)

IsSpace(c) == c \in {" ", "\n", "\t", "\r"}

None == [kind |-> "none", neg |-> FALSE, whole |-> 0, frac |-> 0]
Num(neg, whole, frac) == [kind |-> "num", neg |-> neg, whole |-> whole, frac |-> frac]
NotANumber == [kind |-> "nan", neg |-> FALSE, whole |-> 0, frac |-> 0]

\* truth value of a JSON scalar of the price structure: None is false, a
\* text such as "0.0000" is true
Truthy(d) == d.kind # "none"

\* float(d) raises ValueError for a text that is no number, and int(.) raises
\* for nan
Raises(d) == d.kind = "nan"

\* int(float(d)): truncation towards zero
IntOfFloat(d) == IF d.neg THEN 0 - d.whole ELSE d.whole

-----------------------------------------------------------------------------
(* OzonSellerAPI._clean_description, bot.py:226-238 *)

\* the first position n >= from with s[n] = c, or 0
IndexFrom(s, c, from) ==
    LET found == { n \in from..Len(s) : Ch(s, n) = c }
    IN IF found = {} THEN 0
       ELSE CHOOSE n \in found : \A m \in found : n <= m

\* the first position n >= from with s[n] = c, Len(s) + 1 if none: where the
\* scan of a pattern that begins with c goes on after a character that
\* begins no match
ScanFrom(s, c, from) ==
    IF IndexFrom(s, c, from) = 0 THEN Len(s) + 1 ELSE IndexFrom(s, c, from)

\* the first position n >= from with s[n] no white space, Len(s) + 1 if none
RECURSIVE SkipSpace(_, _)
SkipSpace(s, from) ==
    IF from > Len(s) THEN from
    ELSE IF IsSpace(Ch(s, from)) THEN SkipSpace(s, from + 1)
    ELSE from

\* the end of a match of <br\s*/?> that starts at n, or 0
BrMatchEnd(s, n) ==
    IF n + 2 > Len(s) \/ SubSeq(s, n, n + 2) # "<br" THEN 0
    ELSE LET a == SkipSpace(s, n + 3)
             b == IF a <= Len(s) /\ Ch(s, a) = "/" THEN a + 1 ELSE a
         IN IF b <= Len(s) /\ Ch(s, b) = ">" THEN b ELSE 0

\* re.sub(r'<br\s*/?>', '\n', s) from position n on
RECURSIVE SubBr(_, _)
SubBr(s, n) ==
    IF n > Len(s) THEN ""
    ELSE IF BrMatchEnd(s, n) # 0 THEN "\n" \o SubBr(s, BrMatchEnd(s, n) + 1)
    ELSE SubSeq(s, n, ScanFrom(s, "<", n + 1) - 1)
             \o SubBr(s, ScanFrom(s, "<", n + 1))

\* the end of a match of <[^>]+> that starts at n, or 0
TagMatchEnd(s, n) ==
    IF Ch(s, n) # "<" THEN 0
    ELSE LET e == IndexFrom(s, ">", n + 1)
         IN IF e >= n + 2 THEN e ELSE 0

\* re.sub(r'<[^>]+>', '', s) from position n on
RECURSIVE SubTags(_, _)
SubTags(s, n) ==
    IF n > Len(s) THEN ""
    ELSE IF TagMatchEnd(s, n) # 0 THEN SubTags(s, TagMatchEnd(s, n) + 1)
    ELSE SubSeq(s, n, ScanFrom(s, "<", n + 1) - 1)
             \o SubTags(s, ScanFrom(s, "<", n + 1))

\* the last line feed in the run of white space s[from..to], or 0
RECURSIVE LastNewline(_, _, _)
LastNewline(s, from, to) ==
    IF to < from THEN 0
    ELSE IF Ch(s, to) = "\n" THEN to
    ELSE LastNewline(s, from, to - 1)

\* the end of a match of \n\s*\n that starts at n, or 0
BlankMatchEnd(s, n) ==
    IF Ch(s, n) # "\n" THEN 0
    ELSE LastNewline(s, n + 1, SkipSpace(s, n + 1) - 1)

\* re.sub(r'\n\s*\n', '\n', s) from position n on
RECURSIVE SubBlank(_, _)
SubBlank(s, n) ==
    IF n > Len(s) THEN ""
    ELSE IF BlankMatchEnd(s, n) # 0 THEN "\n" \o SubBlank(s, BlankMatchEnd(s, n) + 1)
    ELSE SubSeq(s, n, ScanFrom(s, "\n", n + 1) - 1)
             \o SubBlank(s, ScanFrom(s, "\n", n + 1))

\* the last position n <= to with s[n] no white space, 0 if none
RECURSIVE LastNonSpace(_, _)
LastNonSpace(s, to) ==
    IF to < 1 THEN 0
    ELSE IF IsSpace(Ch(s, to)) THEN LastNonSpace(s, to - 1)
    ELSE to

\* str.strip()
Strip(s) == SubSeq(s, SkipSpace(s, 1), LastNonSpace(s, Len(s)))

clean_description(description) ==
    IF description = "" THEN ""
    ELSE Strip(SubBlank(SubTags(SubBr(description, 1), 1), 1))

-----------------------------------------------------------------------------
(* OzonSellerAPI._extract_price_from_v5, bot.py:240-271 *)

\* the price_item that prices_data.get(product_id, {}) yields for a missing key
NoPriceItem == EmptyDict

\* the function without the tests price_int > 0
extract_price_unchecked(price_item) ==
    IF DOMAIN price_item = {} THEN 0
    ELSE LET price_info == price_item.price
             main_price == price_info.price
             old_price == price_info.old_price
         IN IF Truthy(main_price) /\ Raises(main_price) THEN 0
            ELSE IF Truthy(main_price) THEN IntOfFloat(main_price)
            ELSE IF Truthy(old_price) /\ Raises(old_price) THEN 0
            ELSE IF Truthy(old_price) THEN IntOfFloat(old_price)
            ELSE 0

\* the function without the old price as second choice
extract_price_no_fallback(price_item) ==
    IF DOMAIN price_item = {} THEN 0
    ELSE LET main_price == price_item.price.price
         IN IF Truthy(main_price) /\ ~Raises(main_price)
                  /\ IntOfFloat(main_price) > 0
            THEN IntOfFloat(main_price)
            ELSE 0

extract_price_from_v5(price_item) ==
    IF DOMAIN price_item = {} THEN 0
    ELSE LET price_info == price_item.price
             main_price == price_info.price
             old_price == price_info.old_price
         IN IF Truthy(main_price) /\ Raises(main_price) THEN 0
            ELSE IF Truthy(main_price) /\ IntOfFloat(main_price) > 0
                 THEN IntOfFloat(main_price)
            ELSE IF Truthy(old_price) /\ Raises(old_price) THEN 0
            ELSE IF Truthy(old_price) /\ IntOfFloat(old_price) > 0
                 THEN IntOfFloat(old_price)
            ELSE 0

\* dict.get(key, default)
Get(d, key, default) == IF key \in DOMAIN d THEN d[key] ELSE default

-----------------------------------------------------------------------------
(* OzonSellerAPI.get_products_with_prices, the loop of bot.py:85-132 *)

\* truth value of item.get('product_id')
HasProductId(item) == item.product_id # NoKey /\ item.product_id # 0

\* f"Tovar {product_id}", bot.py:96
Placeholder(product_id) == "Tovar " \o ToString(product_id)

\* the name without the offer code as first choice
NameOfNoOfferCode(item, descriptions) ==
    IF item.product_id \in DOMAIN descriptions
    THEN descriptions[item.product_id].name
    ELSE Placeholder(item.product_id)

\* name, bot.py:95-96
NameOf(item, descriptions) ==
    IF item.product_id \in DOMAIN descriptions
    THEN descriptions[item.product_id].name
    ELSE IF item.offer_id # "" THEN item.offer_id
    ELSE Placeholder(item.product_id)

\* description, bot.py:97-106
DescriptionOf(item, descriptions) ==
    LET description == IF item.product_id \in DOMAIN descriptions
                       THEN descriptions[item.product_id].description
                       ELSE ""
        cleaned == clean_description(description)
    IN IF description = "" THEN NameOf(item, descriptions)
       ELSE IF Len(cleaned) > DescLimit
            THEN SubSeq(cleaned, 1, DescKeep) \o Ellipsis
            ELSE cleaned

\* price, bot.py:109
PriceOf(item, prices) ==
    extract_price_from_v5(Get(prices, item.product_id, NoPriceItem))

\* one pass of the loop body: the products it appends
FormProduct(item, prices, descriptions) ==
    IF ~HasProductId(item) THEN << >>
    ELSE IF PriceOf(item, prices) = 0 THEN << >>
    ELSE << [product_id  |-> item.product_id,
             offer_id    |-> item.offer_id,
             name        |-> NameOf(item, descriptions),
             price       |-> PriceOf(item, prices),
             description |-> DescriptionOf(item, descriptions),
             quantity    |-> Quantity] >>

\* the loop that puts every product in front of those formed before
RECURSIVE FormProductsReversed(_, _, _)
FormProductsReversed(its, prices, descriptions) ==
    IF its = << >> THEN << >>
    ELSE FormProductsReversed(Tail(its), prices, descriptions)
             \o FormProduct(Head(its), prices, descriptions)

RECURSIVE FormProducts(_, _, _)
FormProducts(its, prices, descriptions) ==
    IF its = << >> THEN << >>
    ELSE FormProduct(Head(its), prices, descriptions)
             \o FormProducts(Tail(its), prices, descriptions)

\* product_ids, bot.py:69
RECURSIVE ProductIds(_)
ProductIds(its) ==
    IF its = << >> THEN << >>
    ELSE (IF Head(its).product_id # NoKey THEN << Head(its).product_id >> ELSE << >>)
             \o ProductIds(Tail(its))

-----------------------------------------------------------------------------
(* OzonSellerAPI._get_products_prices_v5, bot.py:144-187 *)

Min(a, b) == IF a < b THEN a ELSE b

\* batch_ids = product_ids[i:i+50]
BatchIds(ids, from) == SubSeq(ids, from + 1, Min(from + BatchSize, Len(ids)))

\* the loop of bot.py:175-177: every item is stored under its product_id, and
\* of two items with one product_id the later stays
StorePrices(prices, price_items) ==
    LET ids == { price_items[n].product_id : n \in DOMAIN price_items }
        last(id) == CHOOSE n \in DOMAIN price_items :
                        /\ price_items[n].product_id = id
                        /\ \A m \in DOMAIN price_items :
                               price_items[m].product_id = id => m <= n
    IN [id \in (DOMAIN prices) \cup ids |->
           IF id \in ids THEN price_items[last(id)] ELSE prices[id]]

\* the function with the test of the status turned round
PricesAfterBatchInverted(prices, outcome) ==
    IF outcome.kind # "ok" THEN StorePrices(prices, outcome.items) ELSE prices

\* prices_data after the answer to one batch that did not raise, bot.py:170-181
PricesAfterBatch(prices, outcome) ==
    IF outcome.kind = "ok" THEN StorePrices(prices, outcome.items) ELSE prices

-----------------------------------------------------------------------------
(* OzonSellerAPI._get_products_descriptions_v1, bot.py:189-224 *)

\* descriptions_data after the answer to one lookup that did not raise,
\* bot.py:205-217; outcome.result is << >> for an empty 'result'
DescriptionsAfterLookup(descriptions, product_id, outcome) ==
    IF outcome.kind = "ok" /\ outcome.result # << >>
    THEN Put(descriptions, product_id,
             [name |-> outcome.result[1].name,
              description |-> outcome.result[1].description])
    ELSE descriptions

-----------------------------------------------------------------------------
(* handle_product_action, bot.py:472-481, and show_product_detail *)

Size(cache) == Cardinality(DOMAIN cache)

\* the function without the wrap to 1
NextIndexNoWrap(product_index, cache) == product_index + 1

NextIndex(product_index, cache) ==
    IF product_index + 1 > Size(cache) THEN 1 ELSE product_index + 1

\* the function without the wrap to the last position
PrevIndexNoWrap(product_index, cache) == product_index - 1

PrevIndex(product_index, cache) ==
    IF product_index - 1 < 1 THEN Size(cache) ELSE product_index - 1

\* the position on the buttons after show_product_detail(product_index):
\* 0 when the product is not found and the message has no buttons.
\* First the function without the test of bot.py:434
DetailNoTest(product_index, cache) == product_index

Detail(product_index, cache) ==
    IF product_index \in DOMAIN cache THEN product_index ELSE 0

-----------------------------------------------------------------------------
(* The answers of the marketplace: the inputs of a refresh *)

\* the ways a remote call fails: a status other than 200,
\* requests.exceptions.Timeout, requests.exceptions.ConnectionError
FailKinds == {"status", "timeout", "connection"}

\* the failures that raise inside requests.post
RaiseKinds == {"timeout", "connection"}

\* the except clause for Timeout alone
CaughtTimeoutOnly(kind) == kind = "timeout"

\* the except clauses of get_products_with_prices, bot.py:134-142: Timeout,
\* ConnectionError, and Exception for all the rest
Caught(kind) == kind = "timeout" \/ kind = "connection" \/ kind \in RaiseKinds

ItemChoices ==
    { [product_id |-> 1, offer_id |-> "A1"],
      [product_id |-> 2, offer_id |-> ""],
      [product_id |-> NoKey, offer_id |-> "B7"] }

Listings == UNION { [1..n -> ItemChoices] : n \in 0..MaxItems }

ListingOutcomes ==
    { [kind |-> k, items |-> << >>] : k \in FailKinds }
        \cup { [kind |-> "ok", items |-> l] : l \in Listings }

\* the 'price' structure of one item of v5/product/info/prices
PriceInfoChoices ==
    { [price |-> Num(FALSE, 1500, 0), old_price |-> None],
      [price |-> Num(TRUE, 1, 0),     old_price |-> Num(FALSE, 2, 5)],
      [price |-> Num(FALSE, 0, 5),    old_price |-> None] }

\* the elements of a set of integers in ascending order
RECURSIVE Ascending(_)
Ascending(S) ==
    IF S = {} THEN << >>
    ELSE LET m == CHOOSE x \in S : \A y \in S : x <= y
         IN << m >> \o Ascending(S \ {m})

Range(seq) == { seq[n] : n \in DOMAIN seq }

\* the price items of an answer that prices the identifiers DOMAIN f
PriceItems(f) ==
    LET ids == Ascending(DOMAIN f)
    IN [n \in DOMAIN ids |-> [product_id |-> ids[n], price |-> f[ids[n]]]]

\* the answers to a price batch: a failure, or items for some of the
\* identifiers of the batch
PriceOutcomes(batch_ids) ==
    { [kind |-> k, items |-> << >>] : k \in FailKinds }
        \cup { [kind |-> "ok", items |-> PriceItems(f)] :
                 f \in UNION { [P -> PriceInfoChoices] : P \in SUBSET Range(batch_ids) } }

DescriptionChoices ==
    { [name |-> "Name", description |-> "<b>Hi</b>"] }

\* the answers to a description lookup: a failure, an empty 'result', a record
DescriptionOutcomes ==
    { [kind |-> k, result |-> << >>] : k \in FailKinds }
        \cup { [kind |-> "ok", result |-> << >>] }
        \cup { [kind |-> "ok", result |-> << d >>] : d \in DescriptionChoices }

\* the answers to the price batches of ids from offset from on; no batch is
\* sent after one that raised
RECURSIVE PriceAnswers(_, _)
PriceAnswers(ids, from) ==
    IF from >= Len(ids) THEN { << >> }
    ELSE UNION { IF o.kind \in RaiseKinds THEN { << o >> }
                 ELSE { << o >> \o rest : rest \in PriceAnswers(ids, from + BatchSize) } :
                 o \in PriceOutcomes(BatchIds(ids, from)) }

\* the answers to the lookups of ids from index n on; no lookup is sent after
\* one that raised
RECURSIVE DescriptionAnswers(_, _)
DescriptionAnswers(ids, n) ==
    IF n > Len(ids) THEN { << >> }
    ELSE UNION { IF o.kind \in RaiseKinds THEN { << o >> }
                 ELSE { << o >> \o rest : rest \in DescriptionAnswers(ids, n + 1) } :
                 o \in DescriptionOutcomes }

NoOutcome == [kind |-> "none", items |-> << >>]

\* no call was issued
NoResp == [listing |-> NoOutcome, prices |-> << >>, descriptions |-> << >>]

\* the listing answer stops get_products_with_prices, bot.py:55-74
ListingStops(outcome) ==
    \/ outcome.kind # "ok"
    \/ outcome.items = << >>
    \/ ProductIds(outcome.items) = << >>

\* all the answers one refresh can receive after the listing answer l
ResponsesTo(l) ==
    IF ListingStops(l)
    THEN { [listing |-> l, prices |-> << >>, descriptions |-> << >>] }
    ELSE { [listing |-> l, prices |-> p, descriptions |-> d] :
             p \in PriceAnswers(ProductIds(l.items), 0),
             d \in DescriptionAnswers(ProductIds(l.items), 1) }

Responses == UNION { ResponsesTo(l) : l \in ListingOutcomes }

\* the remote calls that receive the answers r, in the order of their issue
CallsOf(r) ==
    (IF r.listing.kind = "none" THEN << >> ELSE << "listing" >>)
        \o [n \in DOMAIN r.prices |-> "prices"]
        \o [n \in DOMAIN r.descriptions |-> "description"]

\* some call of r failed
SomeCallFailed(r) ==
    \/ r.listing.kind \in FailKinds
    \/ \E n \in DOMAIN r.prices : r.prices[n].kind \in FailKinds
    \/ \E n \in DOMAIN r.descriptions : r.descriptions[n].kind \in FailKinds

-----------------------------------------------------------------------------
(* The functions of a refresh, as functions of the answers received *)

\* _get_products_prices_v5, bot.py:144-187
RECURSIVE PricesLoop(_, _, _, _)
PricesLoop(ids, from, prices, answers) ==
    IF from >= Len(ids) \/ answers = << >> THEN prices
    ELSE IF Head(answers).kind \in RaiseKinds THEN EmptyDict
    ELSE PricesLoop(ids, from + BatchSize,
                    PricesAfterBatch(prices, Head(answers)), Tail(answers))

get_products_prices_v5(ids, answers) ==
    IF ids = << >> THEN EmptyDict ELSE PricesLoop(ids, 0, EmptyDict, answers)

\* _get_products_descriptions_v1, bot.py:189-224
RECURSIVE DescriptionsLoop(_, _, _, _)
DescriptionsLoop(ids, n, descriptions, answers) ==
    IF n > Len(ids) \/ answers = << >> THEN descriptions
    ELSE IF Head(answers).kind \in RaiseKinds THEN EmptyDict
    ELSE DescriptionsLoop(ids, n + 1,
                          DescriptionsAfterLookup(descriptions, ids[n], Head(answers)),
                          Tail(answers))

get_products_descriptions_v1(ids, answers) ==
    IF ids = << >> THEN EmptyDict ELSE DescriptionsLoop(ids, 1, EmptyDict, answers)

\* get_products_with_prices, bot.py:31-142; None is the empty list, which
\* load_real_products does not tell from it (bot.py:297)
get_products_with_prices(r) ==
    IF ListingStops(r.listing) THEN << >>
    ELSE FormProducts(r.listing.items,
                      get_products_prices_v5(ProductIds(r.listing.items), r.prices),
                      get_products_descriptions_v1(ProductIds(r.listing.items),
                                                   r.descriptions))

\* the entry that load_real_products stores for one item, bot.py:307-323
Entry(item) ==
    [product_id  |-> item.product_id,
     offer_id    |-> item.offer_id,
     name        |-> item.name,
     price       |-> item.price,
     description |-> item.description,
     quantity    |-> item.quantity]

\* the first key of load_real_products, bot.py:303
FirstCounter == 1

\* the loop with a counter that skips a key after every product
RECURSIVE StoreProductsGap(_, _, _)
StoreProductsGap(prods, counter, data) ==
    IF data = << >> THEN prods
    ELSE StoreProductsGap(Put(prods, counter, Entry(Head(data))), counter + 2, Tail(data))

\* the loop of load_real_products, bot.py:305-330
RECURSIVE StoreProducts(_, _, _)
StoreProducts(prods, counter, data) ==
    IF data = << >> THEN prods
    ELSE StoreProducts(Put(prods, counter, Entry(Head(data))), counter + 1, Tail(data))

\* the function that keeps the cache when no products arrive
load_real_products_keep(credentialsMissing, r) ==
    IF credentialsMissing THEN EmptyDict
    ELSE LET data == get_products_with_prices(r)
         IN IF data = << >> THEN products_cache
            ELSE StoreProducts(EmptyDict, FirstCounter, data)

\* the function that adds the products to the cache it finds
load_real_products_append(credentialsMissing, r) ==
    IF credentialsMissing THEN EmptyDict
    ELSE LET data == get_products_with_prices(r)
         IN IF data = << >> THEN EmptyDict
            ELSE StoreProducts(products_cache, Size(products_cache) + 1, data)

\* the dict that load_real_products assigns to products_cache, bot.py:284-334
load_real_products(credentialsMissing, r) ==
    IF credentialsMissing THEN EmptyDict
    ELSE LET data == get_products_with_prices(r)
         IN IF data = << >> THEN EmptyDict
            ELSE StoreProducts(EmptyDict, FirstCounter, data)

-----------------------------------------------------------------------------
(* The state after the module is loaded, bot.py:16-21 *)

NoWalk == [dir |-> "none", start |-> 0, n |-> 0]

\* asked when no button was pressed on the snapshot in the store
NoPress == -1

Init ==
    /\ OZON_CLIENT_ID \in {"", "client"}
    /\ OZON_API_KEY \in {"", "key"}
    /\ products_cache = EmptyDict
    /\ pc = "idle"
    /\ products_count_before = 0
    /\ products_count_after = 0
    /\ items = << >>
    /\ product_ids = << >>
    /\ prices_data = EmptyDict
    /\ i = 0
    /\ descriptions_data = EmptyDict
    /\ j = 0
    /\ products_data = << >>
    /\ products = EmptyDict
    /\ product_counter = 0
    /\ shown = 0
    /\ resp = NoResp
    /\ calls = << >>
    /\ failed = FALSE
    /\ afterFailure = FALSE
    /\ again = FALSE
    /\ walk = NoWalk
    /\ asked = NoPress
    /\ batches = << >>
    /\ price_record = NoPriceItem
    /\ price = 0

env == <<OZON_CLIENT_ID, OZON_API_KEY>>
counts == <<products_count_before, products_count_after>>
listingLocals == <<items, product_ids>>
priceLocals == <<prices_data, i, batches>>
descriptionLocals == <<descriptions_data, j>>
loadLocals == <<products, product_counter>>
locals == <<listingLocals, priceLocals, descriptionLocals, products_data, loadLocals>>
reader == <<shown, walk, asked>>
extractLocals == <<price_record, price>>

\* the test that passes when one of the two values is set
CredentialsBothMissing == OZON_CLIENT_ID = "" /\ OZON_API_KEY = ""

\* bot.py:290 and 36: not all([OZON_API_KEY, OZON_CLIENT_ID])
CredentialsMissing == OZON_CLIENT_ID = "" \/ OZON_API_KEY = ""

-----------------------------------------------------------------------------
(* refresh_products_callback, bot.py:382-419, as one step per handler *)

\* bot.py:386-388: the count before, load_real_products, the count after.
\* No other handler runs in between: load_real_products awaits nothing.
RefreshWith(r) ==
    /\ products_count_before' = Size(products_cache)
    /\ resp' = r
    /\ calls' = CallsOf(r)
    /\ afterFailure' = failed
    /\ again' = (pc = "done")
    /\ IF r.listing.kind \in RaiseKinds /\ ~Caught(r.listing.kind)
       THEN /\ pc' = "raised"
            /\ UNCHANGED <<products_cache, products_count_after, failed>>
       ELSE /\ pc' = "done"
            /\ products_cache' = load_real_products(CredentialsMissing, r)
            /\ products_count_after' = Size(products_cache')
            /\ failed' = (SomeCallFailed(r) /\ Size(products_cache') = 0)
    /\ UNCHANGED <<env, extractLocals, locals, reader>>

\* A refresh.  Without credentials it issues no call.  In the state "done" the
\* answers of the refresh that just ended are still on record, and the refresh
\* that follows at once is the one that receives the same answers again; every
\* other refresh follows Reply.
Refresh ==
    /\ pc \in {"idle", "done"}
    /\ \E r \in (IF CredentialsMissing THEN {NoResp}
                 ELSE IF pc = "done" THEN {resp}
                 ELSE Responses) : RefreshWith(r)

\* bot.py:390-419: the message with the counts is sent and the handler ends
Reply ==
    /\ pc = "done"
    /\ pc' = "idle"
    /\ products_count_before' = 0
    /\ products_count_after' = 0
    /\ resp' = NoResp
    /\ calls' = << >>
    /\ afterFailure' = FALSE
    /\ again' = FALSE
    /\ UNCHANGED <<env, extractLocals, products_cache, locals, reader, failed>>

Next ==
    \/ Refresh
    \/ Reply

Spec == Init /\ [][Next]_vars

-----------------------------------------------------------------------------
(* refresh_products_callback step by step: one step per remote call, per    *)
(* pass of the loop of load_real_products and per assignment of the cache   *)

\* bot.py:386-387 and 290-293: the count before, then the credential check
RefreshBegin ==
    /\ pc = "idle"
    /\ products_count_before' = Size(products_cache)
    /\ calls' = << >>
    /\ resp' = NoResp
    /\ afterFailure' = failed
    /\ again' = FALSE
    /\ walk' = NoWalk
    /\ asked' = NoPress
    /\ IF CredentialsMissing
       THEN /\ products_cache' = EmptyDict
            /\ pc' = "report"
       ELSE /\ pc' = "listing"
            /\ UNCHANGED products_cache
    /\ UNCHANGED <<env, extractLocals, products_count_after, locals, shown, failed>>

\* the listing call followed by the description lookups, without the prices
ListingCallSkipPrices(outcome) ==
    /\ pc = "listing"
    /\ calls' = Append(calls, "listing")
    /\ resp' = [resp EXCEPT !.listing = outcome]
    /\ IF ListingStops(outcome)
       THEN /\ pc' = "loaded"
            /\ products_data' = << >>
            /\ UNCHANGED <<listingLocals, descriptionLocals>>
       ELSE /\ pc' = "descriptions"
            /\ items' = outcome.items
            /\ product_ids' = ProductIds(outcome.items)
            /\ descriptions_data' = EmptyDict
            /\ j' = 1
            /\ UNCHANGED products_data
    /\ UNCHANGED <<env, extractLocals, products_cache, counts, priceLocals,
                   loadLocals, reader, failed, afterFailure, again>>

\* bot.py:40-74 and 134-142: the listing call of get_products_with_prices
ListingCall(outcome) ==
    /\ pc = "listing"
    /\ calls' = Append(calls, "listing")
    /\ resp' = [resp EXCEPT !.listing = outcome]
    /\ IF outcome.kind \in RaiseKinds /\ ~Caught(outcome.kind)
       THEN /\ pc' = "raised"
            /\ UNCHANGED <<listingLocals, priceLocals, products_data>>
       ELSE IF ListingStops(outcome)
       THEN /\ pc' = "loaded"
            /\ products_data' = << >>
            /\ UNCHANGED <<listingLocals, priceLocals>>
       ELSE /\ pc' = "prices"
            /\ items' = outcome.items
            /\ product_ids' = ProductIds(outcome.items)
            /\ prices_data' = EmptyDict
            /\ i' = 0
            /\ batches' = << >>
            /\ UNCHANGED products_data
    /\ UNCHANGED <<env, extractLocals, products_cache, counts, descriptionLocals, loadLocals,
                   reader, failed, afterFailure, again>>

\* bot.py:148-149: _get_products_prices_v5 called without identifiers
PricesNoIds ==
    /\ pc = "prices"
    /\ product_ids = << >>
    /\ pc' = "descriptions"
    /\ descriptions_data' = EmptyDict
    /\ j' = 1
    /\ UNCHANGED <<env, extractLocals, products_cache, counts, listingLocals, priceLocals,
                   products_data, loadLocals, reader, resp, calls, failed,
                   afterFailure, again>>

\* bot.py:153-187: one pass of the batch loop of _get_products_prices_v5; an
\* exception leaves the loop and the function returns {}
PriceBatch(outcome) ==
    /\ pc = "prices"
    /\ i < Len(product_ids)
    /\ calls' = Append(calls, "prices")
    /\ resp' = [resp EXCEPT !.prices = Append(@, outcome)]
    /\ batches' = Append(batches, BatchIds(product_ids, i))
    /\ prices_data' = IF outcome.kind \in RaiseKinds THEN EmptyDict
                      ELSE PricesAfterBatch(prices_data, outcome)
    /\ IF outcome.kind \in RaiseKinds \/ i + BatchSize >= Len(product_ids)
       THEN /\ pc' = "descriptions"
            /\ i' = 0
            /\ descriptions_data' = EmptyDict
            /\ j' = 1
       ELSE /\ pc' = "prices"
            /\ i' = i + BatchSize
            /\ UNCHANGED descriptionLocals
    /\ UNCHANGED <<env, extractLocals, products_cache, counts, listingLocals, products_data,
                   loadLocals, reader, failed, afterFailure, again>>

\* bot.py:193-194: _get_products_descriptions_v1 called without identifiers
DescriptionsNoIds ==
    /\ pc = "descriptions"
    /\ product_ids = << >>
    /\ pc' = "loaded"
    /\ j' = 0
    /\ products_data' = FormProducts(items, prices_data, descriptions_data)
    /\ UNCHANGED <<env, extractLocals, products_cache, counts, listingLocals, priceLocals,
                   descriptions_data, loadLocals, reader, resp, calls, failed,
                   afterFailure, again>>

\* bot.py:197-224 and 85-132: one pass of the loop of
\* _get_products_descriptions_v1; an exception leaves the loop and the
\* function returns {}.  When the function returns, get_products_with_prices
\* forms the products and returns them
DescriptionLookup(outcome) ==
    /\ pc = "descriptions"
    /\ j \in DOMAIN product_ids
    /\ calls' = Append(calls, "description")
    /\ resp' = [resp EXCEPT !.descriptions = Append(@, outcome)]
    /\ descriptions_data' =
           IF outcome.kind \in RaiseKinds THEN EmptyDict
           ELSE DescriptionsAfterLookup(descriptions_data, product_ids[j], outcome)
    /\ IF outcome.kind \in RaiseKinds \/ j = Len(product_ids)
       THEN /\ pc' = "loaded"
            /\ j' = 0
            /\ products_data' = FormProducts(items, prices_data, descriptions_data')
       ELSE /\ pc' = "descriptions"
            /\ j' = j + 1
            /\ UNCHANGED products_data
    /\ UNCHANGED <<env, extractLocals, products_cache, counts, listingLocals, priceLocals,
                   loadLocals, reader, failed, afterFailure, again>>

\* bot.py:295-303: the test of products_data; None and [] both empty the cache
LoadResult ==
    /\ pc = "loaded"
    /\ IF products_data = << >>
       THEN /\ products_cache' = EmptyDict
            /\ pc' = "report"
            /\ UNCHANGED loadLocals
       ELSE /\ products' = EmptyDict
            /\ product_counter' = FirstCounter
            /\ pc' = "build"
            /\ UNCHANGED products_cache
    /\ items' = << >>
    /\ product_ids' = << >>
    /\ prices_data' = EmptyDict
    /\ batches' = << >>
    /\ descriptions_data' = EmptyDict
    /\ UNCHANGED <<env, extractLocals, counts, i, j, products_data, reader, resp, calls,
                   failed, afterFailure, again>>

\* the loop pass that writes into products_cache itself
BuildStepInPlace ==
    /\ pc = "build"
    /\ Size(products) < Len(products_data)
    /\ products' = Put(products, product_counter,
                       Entry(products_data[Size(products) + 1]))
    /\ products_cache' = Put(products_cache, product_counter,
                             Entry(products_data[Size(products) + 1]))
    /\ product_counter' = product_counter + 1
    /\ UNCHANGED <<env, extractLocals, pc, counts, listingLocals, priceLocals,
                   descriptionLocals, products_data, reader, resp, calls,
                   failed, afterFailure, again>>

\* bot.py:305-326: one pass of the loop over products_data; the item taken is
\* the one after those already stored
BuildStep ==
    /\ pc = "build"
    /\ Size(products) < Len(products_data)
    /\ products' = Put(products, product_counter,
                       Entry(products_data[Size(products) + 1]))
    /\ product_counter' = product_counter + 1
    /\ UNCHANGED <<env, extractLocals, products_cache, pc, counts, listingLocals, priceLocals,
                   descriptionLocals, products_data, reader, resp, calls,
                   failed, afterFailure, again>>

\* bot.py:333: the assignment of the finished dict to products_cache
Swap ==
    /\ pc = "build"
    /\ Size(products) >= Len(products_data)
    /\ products_cache' = products
    /\ pc' = "report"
    /\ products' = EmptyDict
    /\ product_counter' = 0
    /\ products_data' = << >>
    /\ UNCHANGED <<env, extractLocals, counts, listingLocals, priceLocals, descriptionLocals,
                   reader, resp, calls, failed, afterFailure, again>>

\* bot.py:388: the count after
Report ==
    /\ pc = "report"
    /\ products_count_after' = Size(products_cache)
    /\ failed' = (SomeCallFailed(resp) /\ Size(products_cache) = 0)
    /\ pc' = "done"
    /\ UNCHANGED <<env, extractLocals, products_cache, products_count_before, locals, reader,
                   resp, calls, afterFailure, again>>

-----------------------------------------------------------------------------
(* The readers: show_products and handle_product_action *)

\* bot.py:421-429
View ==
    /\ shown' = IF Size(products_cache) = 0 THEN 0 ELSE Detail(1, products_cache)
    /\ walk' = NoWalk
    /\ asked' = NoPress
    /\ UNCHANGED <<env, extractLocals, products_cache, pc, counts, locals, resp, calls,
                   failed, afterFailure, again>>

\* the presses of one button in a row since the position walk.start, counted
\* while no refresh runs
Walked(dir) ==
    IF pc # "idle" THEN NoWalk
    ELSE IF walk.dir = dir /\ walk.n < Size(products_cache)
         THEN [walk EXCEPT !.n = @ + 1]
         ELSE [dir |-> dir, start |-> shown, n |-> 1]

\* the position handed to show_product_detail by a press, kept while no
\* refresh runs
Asked(product_index) == IF pc # "idle" THEN NoPress ELSE product_index

\* bot.py:472-476: a press of the button product_next_{shown}
PressNext ==
    /\ shown # 0
    /\ shown' = Detail(NextIndex(shown, products_cache), products_cache)
    /\ walk' = Walked("next")
    /\ asked' = Asked(NextIndex(shown, products_cache))
    /\ UNCHANGED <<env, extractLocals, products_cache, pc, counts, locals, resp, calls,
                   failed, afterFailure, again>>

\* the press that takes the product out of the store to show it
PressPrevPop ==
    /\ shown # 0
    /\ shown' = Detail(PrevIndex(shown, products_cache), products_cache)
    /\ walk' = Walked("prev")
    /\ asked' = Asked(PrevIndex(shown, products_cache))
    /\ products_cache' =
           [k \in DOMAIN products_cache \ {PrevIndex(shown, products_cache)} |->
               products_cache[k]]
    /\ UNCHANGED <<env, extractLocals, pc, counts, locals, resp, calls,
                   failed, afterFailure, again>>

\* bot.py:477-481: a press of the button product_prev_{shown}
PressPrev ==
    /\ shown # 0
    /\ shown' = Detail(PrevIndex(shown, products_cache), products_cache)
    /\ walk' = Walked("prev")
    /\ asked' = Asked(PrevIndex(shown, products_cache))
    /\ UNCHANGED <<env, extractLocals, products_cache, pc, counts, locals, resp, calls,
                   failed, afterFailure, again>>

\* the listings of the browsing specification: the first n items of a shop
BrowseItem(n) == [product_id |-> n, offer_id |-> "A" \o ToString(n)]

BrowseListingOutcomes ==
    { [kind |-> k, items |-> << >>] : k \in FailKinds }
        \cup { [kind |-> "ok", items |-> [k \in 1..n |-> BrowseItem(k)]] :
                 n \in 0..MaxShown }
        \cup { [kind |-> "ok", items |-> << [product_id |-> NoKey, offer_id |-> "B7"] >>] }

\* a failure, a price for every identifier, a price for all but the smallest
BrowsePriceOutcomes(batch_ids) ==
    { [kind |-> k, items |-> << >>] : k \in FailKinds }
        \cup { [kind |-> "ok",
                items |-> PriceItems([id \in P |->
                              [price |-> Num(FALSE, 1500, 0), old_price |-> None]])] :
                 P \in { Range(batch_ids),
                         { id \in Range(batch_ids) :
                             \E other \in Range(batch_ids) : other < id } } }

BrowseDescriptionOutcomes ==
    { [kind |-> "status", result |-> << >>] }
        \cup { [kind |-> "ok", result |-> << d >>] : d \in DescriptionChoices }

NextBrowse ==
    \/ RefreshBegin
    \/ \E outcome \in BrowseListingOutcomes : ListingCall(outcome)
    \/ \E outcome \in BrowsePriceOutcomes(BatchIds(product_ids, i)) : PriceBatch(outcome)
    \/ \E outcome \in BrowseDescriptionOutcomes : DescriptionLookup(outcome)
    \/ LoadResult
    \/ BuildStep
    \/ Swap
    \/ Report
    \/ Reply
    \/ View
    \/ PressNext
    \/ PressPrev

\* the bot with its readers, scheduled between any two steps of a refresh
SpecBrowse == Init /\ [][NextBrowse]_vars

-----------------------------------------------------------------------------
(* _get_products_prices_v5 called on its own with the identifiers 1..n *)

InitPrices ==
    /\ OZON_CLIENT_ID = "client"
    /\ OZON_API_KEY = "key"
    /\ products_cache = EmptyDict
    /\ pc = "prices"
    /\ products_count_before = 0
    /\ products_count_after = 0
    /\ items = << >>
    /\ \E n \in 0..MaxIds : product_ids = [k \in 1..n |-> k]
    /\ prices_data = EmptyDict
    /\ i = 0
    /\ descriptions_data = EmptyDict
    /\ j = 0
    /\ products_data = << >>
    /\ products = EmptyDict
    /\ product_counter = 0
    /\ shown = 0
    /\ resp = NoResp
    /\ calls = << >>
    /\ failed = FALSE
    /\ afterFailure = FALSE
    /\ again = FALSE
    /\ walk = NoWalk
    /\ asked = NoPress
    /\ batches = << >>
    /\ price_record = NoPriceItem
    /\ price = 0

IsEven(id) == id % 2 = 0

\* the price item of the answers of this specification
PricedItem(id) ==
    [product_id |-> id, price |-> [price |-> Num(FALSE, 1500, 0), old_price |-> None]]

\* a failure, a price for every identifier of the batch, for the even ones,
\* for none
BatchPriceOutcomes(batch_ids) ==
    { [kind |-> k, items |-> << >>] : k \in FailKinds }
        \cup { [kind |-> "ok", items |-> [n \in DOMAIN ids |-> PricedItem(ids[n])]] :
                 ids \in { batch_ids, SelectSeq(batch_ids, IsEven), << >> } }

NextPrices ==
    \/ PricesNoIds
    \/ \E outcome \in BatchPriceOutcomes(BatchIds(product_ids, i)) : PriceBatch(outcome)

SpecPrices == InitPrices /\ [][NextPrices]_vars

-----------------------------------------------------------------------------
(* _get_products_descriptions_v1 called on its own with the identifiers 1..n *)

InitDescriptions ==
    /\ OZON_CLIENT_ID = "client"
    /\ OZON_API_KEY = "key"
    /\ products_cache = EmptyDict
    /\ pc = "descriptions"
    /\ products_count_before = 0
    /\ products_count_after = 0
    /\ items = << >>
    /\ \E n \in 0..MaxLookups : product_ids = [k \in 1..n |-> k]
    /\ prices_data = EmptyDict
    /\ i = 0
    /\ descriptions_data = EmptyDict
    /\ j = 1
    /\ products_data = << >>
    /\ products = EmptyDict
    /\ product_counter = 0
    /\ shown = 0
    /\ resp = NoResp
    /\ calls = << >>
    /\ failed = FALSE
    /\ afterFailure = FALSE
    /\ again = FALSE
    /\ walk = NoWalk
    /\ asked = NoPress
    /\ batches = << >>
    /\ price_record = NoPriceItem
    /\ price = 0

NextDescriptions ==
    \/ DescriptionsNoIds
    \/ \E outcome \in DescriptionOutcomes : DescriptionLookup(outcome)

SpecDescriptions == InitDescriptions /\ [][NextDescriptions]_vars

-----------------------------------------------------------------------------
(* Properties of the store after whole refreshes *)

\* C1: every product held in products_cache has an integer price greater
\* than 0, after any refreshes with any answers and any failed calls
C1_PricePositive ==
    \A k \in DOMAIN products_cache :
        products_cache[k].price \in Nat /\ products_cache[k].price > 0

\* a refresh stored a product priced by old_price and left another item out
C1_Witness ==
    /\ pc = "done"
    /\ Size(products_cache) < Len(resp.listing.items)
    /\ \E k \in DOMAIN products_cache : products_cache[k].price = 2

\* the listing call failed or answered no items
ListingFailedOrEmpty(r) ==
    \/ r.listing.kind \in FailKinds
    \/ r.listing.kind = "ok" /\ r.listing.items = << >>

\* C2: when the listing call of a refresh fails or answers no items, the
\* store is empty after the refresh and the count after is 0, whatever the
\* store held before
C2_ListingFailureEmpties ==
    (pc = "done" /\ ListingFailedOrEmpty(resp))
        => (products_cache = EmptyDict /\ products_count_after = 0)

\* the listing call of a refresh timed out while the store held products
C2_Witness ==
    /\ pc = "done"
    /\ resp.listing.kind = "timeout"
    /\ products_count_before > 0
    /\ products_cache = EmptyDict

\* C6: the positions of the store are exactly 1..size, and position k holds
\* the k-th product of the sequence that load_real_products received
C6_DensePositions ==
    /\ DOMAIN products_cache = 1..Size(products_cache)
    /\ (pc = "done" /\ ~CredentialsMissing) =>
           LET data == get_products_with_prices(resp)
           IN /\ Size(products_cache) = Len(data)
              /\ \A k \in DOMAIN data :
                     /\ k \in DOMAIN products_cache
                     /\ products_cache[k].product_id = data[k].product_id
                     /\ products_cache[k].price = data[k].price

\* a refresh stored two different products, the second listed item first
C6_Witness ==
    /\ pc = "done"
    /\ Size(products_cache) = 2
    /\ products_cache[1].product_id = 2
    /\ products_cache[2].product_id = 1

\* the answers received hold a price item for the listed item that resolves to
\* a price above 0
PositivelyPriced(item, r) ==
    /\ HasProductId(item)
    /\ \E n \in DOMAIN r.prices : \E m \in DOMAIN r.prices[n].items :
           /\ r.prices[n].items[m].product_id = item.product_id
           /\ extract_price_from_v5(r.prices[n].items[m]) > 0

C9_Idempotent == [][again' => products_cache' = products_cache]_vars

\* a second refresh received the same answers and the store holds two products
C9_Witness ==
    /\ pc = "done"
    /\ again
    /\ Size(products_cache) = 2

\* every call of the refresh succeeded
Healthy(r) == r.listing.kind = "ok" /\ ~SomeCallFailed(r)

\* C10: no exception leaves a refresh, and a refresh with a healthy upstream
\* that follows a refresh which failed and emptied the store yields the
\* snapshot of its own answers
C10_CleanAfterFailure ==
    /\ pc # "raised"
    /\ (pc = "done" /\ afterFailure /\ Healthy(resp))
           => products_cache = load_real_products(FALSE, resp)

\* a healthy refresh followed a failed one and stored products
C10_Witness ==
    /\ pc = "done"
    /\ afterFailure
    /\ Healthy(resp)
    /\ Size(products_cache) >= 1
-----------------------------------------------------------------------------
(* Properties of the two fetch functions *)

\* C3: when _get_products_prices_v5 returns, its result holds the price item
\* of every identifier that a batch answered with status 200, however another
\* batch failed
C3_PartialPricesKept ==
    pc = "descriptions" =>
        \A n \in DOMAIN resp.prices :
            resp.prices[n].kind = "ok" =>
                \A m \in DOMAIN resp.prices[n].items :
                    /\ resp.prices[n].items[m].product_id \in DOMAIN prices_data
                    /\ prices_data[resp.prices[n].items[m].product_id]
                           = resp.prices[n].items[m]

\* C4: when _get_products_descriptions_v1 returns, its result holds the
\* record of every identifier whose lookup succeeded, however another lookup
\* failed
C4_PartialDescriptionsKept ==
    pc = "loaded" =>
        \A n \in DOMAIN resp.descriptions :
            (resp.descriptions[n].kind = "ok" /\ resp.descriptions[n].result # << >>) =>
                /\ product_ids[n] \in DOMAIN descriptions_data
                /\ descriptions_data[product_ids[n]] = resp.descriptions[n].result[1]

-----------------------------------------------------------------------------
(* Properties of the readers *)

\* C5: on a store of size N >= 1, N presses of next in a row from a position
\* of the store lead back to that position, and so do N presses of prev
C5_Cyclic ==
    (/\ walk.dir # "none"
     /\ Size(products_cache) >= 1
     /\ walk.n = Size(products_cache)
     /\ walk.start \in 1..Size(products_cache))
        => shown = walk.start

\* three presses of prev on a store of three products, begun at position 2
C5_Witness ==
    /\ walk.dir = "prev"
    /\ walk.n = 3
    /\ walk.start = 2
    /\ Size(products_cache) = 3
    /\ shown = 2

\* as C5_Witness, for three presses of next
C5_WitnessNext ==
    /\ walk.dir = "next"
    /\ walk.n = 3
    /\ walk.start = 2
    /\ Size(products_cache) = 3
    /\ shown = 2

\* C7: the store changes in a single step of a refresh, the step puts the
\* complete snapshot of the answers received in place of the snapshot held
\* before, and the refresh only reports after it; at every other step, where
\* a reader may run, the store is the snapshot held before
C7_AtomicSwap ==
    [][products_cache' # products_cache =>
           /\ pc' = "report"
           /\ products_cache' = load_real_products(CredentialsMissing, resp')]_vars

\* a reader has shown a product of the old snapshot while the new one is half
\* built
C7_Witness ==
    /\ pc = "build"
    /\ Size(products) >= 1
    /\ Size(products) < Len(products_data)
    /\ Size(products_cache) >= 2
    /\ products_cache[1] # products[1]
    /\ shown = 2

-----------------------------------------------------------------------------
(* Properties of a refresh without credentials *)

\* C11: when the client id or the API key is missing, a refresh issues no
\* remote call (no listing, price or description request), never enters the
\* fetching steps, and leaves products_cache empty
C11_NoCredentialsNoCall ==
    (OZON_CLIENT_ID = "" \/ OZON_API_KEY = "") =>
        /\ calls = << >>
        /\ resp = NoResp
        /\ pc \notin {"listing", "prices", "descriptions", "loaded", "build"}
        /\ pc \in {"report", "done"} => products_cache = EmptyDict

C11_Witness ==
    /\ OZON_CLIENT_ID = "client"
    /\ OZON_API_KEY = ""
    /\ pc = "done"
    /\ calls = << >>
    /\ products_cache = EmptyDict
    /\ products_count_after = 0

-----------------------------------------------------------------------------
(* Properties of the presses on one snapshot *)

\* C12: show_product_detail finds a product exactly when the position asked
\* for lies in 1..size of the store, and the product shown is the one at that
\* position; every other position, and every position on an empty store
\* (those computed by next and prev included), gives the not-found message
C12_FoundExactlyInRange ==
    asked # NoPress =>
        /\ shown # 0 <=> (1 <= asked /\ asked <= Size(products_cache))
        /\ shown # 0 => shown = asked
        /\ Size(products_cache) = 0 => shown = 0

C12_Witness ==
    /\ asked # NoPress
    /\ walk.dir = "prev"
    /\ Size(products_cache) = 0
    /\ shown = 0

\* C13 as stated: on a non-empty store a press of next or prev on any
\* position that was displayed, a refresh in between or not, shows a product
C13_PressShowsProduct ==
    (asked # NoPress /\ Size(products_cache) >= 1) =>
        shown \in 1..Size(products_cache)

\* C13 amended: on a non-empty store a press of next on any displayed
\* position shows a product, and so does a press of prev on a displayed
\* position of at most size + 1; a press of prev on a displayed position
\* above size + 1 asks for the position before it, which is not found
C13_PressFromNearPosition ==
    (asked # NoPress /\ Size(products_cache) >= 1) =>
        /\ (walk.dir = "next" \/ walk.n > 1
                \/ walk.start <= Size(products_cache) + 1)
              => shown \in 1..Size(products_cache)
        /\ (walk.dir = "prev" /\ walk.n = 1
                /\ walk.start > Size(products_cache) + 1)
              => (asked = walk.start - 1 /\ shown = 0)

C13_Witness ==
    /\ asked # NoPress
    /\ walk.dir = "next"
    /\ walk.n = 1
    /\ Size(products_cache) >= 1
    /\ walk.start > Size(products_cache)
    /\ shown = 1

-----------------------------------------------------------------------------
(* _extract_price_from_v5 called on its own, bot.py:109 *)

\* the values of 'price' and 'old_price': absent, a text that is no number,
\* and the decimals -MaxWhole.5 .. MaxWhole.5 in steps of one half
Decimals ==
    {None, NotANumber}
        \cup { Num(neg, whole, frac) :
                 neg \in BOOLEAN, whole \in 0..MaxWhole, frac \in {0, 5} }

\* the arguments: {} for an identifier without price item, or a price item
PriceRecords ==
    {NoPriceItem}
        \cup { [product_id |-> 1, price |-> [price |-> m, old_price |-> o]] :
                 m \in Decimals, o \in Decimals }

InitExtract ==
    /\ OZON_CLIENT_ID = "client"
    /\ OZON_API_KEY = "key"
    /\ products_cache = EmptyDict
    /\ pc = "extract"
    /\ products_count_before = 0
    /\ products_count_after = 0
    /\ items = << >>
    /\ product_ids = << >>
    /\ prices_data = EmptyDict
    /\ i = 0
    /\ descriptions_data = EmptyDict
    /\ j = 0
    /\ products_data = << >>
    /\ products = EmptyDict
    /\ product_counter = 0
    /\ shown = 0
    /\ resp = NoResp
    /\ calls = << >>
    /\ failed = FALSE
    /\ afterFailure = FALSE
    /\ again = FALSE
    /\ walk = NoWalk
    /\ asked = NoPress
    /\ batches = << >>
    /\ price_record \in PriceRecords
    /\ price = 0

\* bot.py:109: price = self._extract_price_from_v5(...)
Extract ==
    /\ pc = "extract"
    /\ price' = extract_price_from_v5(price_record)
    /\ pc' = "extracted"
    /\ UNCHANGED <<env, price_record, products_cache, counts, locals, reader,
                   resp, calls, failed, afterFailure, again>>

NextExtract == Extract

SpecExtract == InitExtract /\ [][NextExtract]_vars

\* a decimal above zero, and the primary and fallback price of the argument
Positive(d) == d.kind = "num" /\ ~d.neg /\ (d.whole > 0 \/ d.frac > 0)
IsNumber(d) == d.kind = "num"
Primary == IF price_record = NoPriceItem THEN None ELSE price_record.price.price
Fallback == IF price_record = NoPriceItem THEN None ELSE price_record.price.old_price

\* C14 as stated, for prices that are absent or decimals: the result is the
\* truncated primary price when the primary price is present and positive,
\* otherwise the truncated fallback price when that is present and positive,
\* otherwise 0
C14_PriceResolution ==
    (pc = "extracted" /\ Primary.kind # "nan" /\ Fallback.kind # "nan") =>
        price = IF Positive(Primary) THEN IntOfFloat(Primary)
                ELSE IF Positive(Fallback) THEN IntOfFloat(Fallback)
                ELSE 0

\* C14 amended: the result is never negative; it is the truncated primary
\* price when that integer is at least 1; otherwise, when the primary price
\* is absent or a number, it is the truncated fallback price when that
\* integer is at least 1; in every other case, a price that is no number
\* included, it is 0
C14_TruncatedPriceResolution ==
    pc = "extracted" =>
        /\ price >= 0
        /\ (IsNumber(Primary) /\ IntOfFloat(Primary) >= 1)
              => price = IntOfFloat(Primary)
        /\ (Primary = None \/ (IsNumber(Primary) /\ IntOfFloat(Primary) < 1))
              => /\ (IsNumber(Fallback) /\ IntOfFloat(Fallback) >= 1)
                       => price = IntOfFloat(Fallback)
                 /\ ~(IsNumber(Fallback) /\ IntOfFloat(Fallback) >= 1)
                       => price = 0
        /\ Primary = NotANumber => price = 0

C14_Witness ==
    /\ pc = "extracted"
    /\ Primary = Num(FALSE, 0, 5)
    /\ Fallback = Num(FALSE, 2, 5)
    /\ price = 2

-----------------------------------------------------------------------------
(* The loop of get_products_with_prices that forms the products, bot.py:85- *)
(* 132, and load_real_products on its result, bot.py:295-334, on their own  *)

\* the listed items: three products of the shop and an item without the
\* key 'product_id'
FormItemChoices ==
    { [product_id |-> 1, offer_id |-> "A1"],
      [product_id |-> 2, offer_id |-> ""],
      [product_id |-> 3, offer_id |-> "C3"],
      [product_id |-> NoKey, offer_id |-> "M0"] }

FormIds == { item.product_id : item \in FormItemChoices } \ {NoKey}

FormListings ==
    UNION { [1..n -> FormItemChoices] : n \in 0..MaxFormItems }

\* a primary price, a primary price of 0, a fallback price alone
FormPriceChoices ==
    { [price |-> Num(FALSE, 150000, 0), old_price |-> None],
      [price |-> Num(FALSE, 0, 0), old_price |-> None],
      [price |-> None, old_price |-> Num(FALSE, 900, 0)] }

\* prices_data as _get_products_prices_v5 may return it
FormPrices ==
    UNION { { [id \in S |-> [product_id |-> id, price |-> f[id]]] :
                f \in [S -> FormPriceChoices] } : S \in SUBSET FormIds }

\* descriptions_data as _get_products_descriptions_v1 may return it
FormDescriptions ==
    { [id \in S |-> [name |-> "Name", description |-> "<b>Hi</b>"]] :
        S \in SUBSET FormIds }

InitForm ==
    /\ OZON_CLIENT_ID = "client"
    /\ OZON_API_KEY = "key"
    /\ products_cache = EmptyDict
    /\ pc = "form"
    /\ products_count_before = 0
    /\ products_count_after = 0
    /\ items \in FormListings
    /\ product_ids = ProductIds(items)
    /\ prices_data \in FormPrices
    /\ i = 0
    /\ descriptions_data \in FormDescriptions
    /\ j = 0
    /\ products_data = << >>
    /\ products = EmptyDict
    /\ product_counter = 0
    /\ shown = 0
    /\ resp = NoResp
    /\ calls = << >>
    /\ failed = FALSE
    /\ afterFailure = FALSE
    /\ again = FALSE
    /\ walk = NoWalk
    /\ asked = NoPress
    /\ batches = << >>
    /\ price_record = NoPriceItem
    /\ price = 0

\* bot.py:85-132 and 295-334: the products are formed, numbered from 1 and
\* assigned to products_cache
FormAndLoad ==
    /\ pc = "form"
    /\ products_data' = FormProducts(items, prices_data, descriptions_data)
    /\ products_cache' = IF products_data' = << >> THEN EmptyDict
                         ELSE StoreProducts(EmptyDict, FirstCounter, products_data')
    /\ pc' = "stored"
    /\ UNCHANGED <<env, extractLocals, counts, listingLocals, priceLocals,
                   descriptionLocals, loadLocals, reader, resp, calls, failed,
                   afterFailure, again>>

NextForm == FormAndLoad

SpecForm == InitForm /\ [][NextForm]_vars

\* the listed items that are not excluded: those with an identifier whose
\* price does not resolve to 0
Included ==
    { n \in DOMAIN items :
        /\ items[n].product_id \in FormIds
        /\ extract_price_from_v5(
               Get(prices_data, items[n].product_id, NoPriceItem)) # 0 }

\* the position of the listed item n among the included ones
Rank(n) == Cardinality({ m \in Included : m <= n })

\* C15: the snapshot is an order-preserving subsequence of the listing: it
\* holds one product per listed item that is not excluded (price resolving
\* to 0, or no identifier), at the position that counts the included items
\* up to it, so that an excluded item neither reorders nor drops another.
\* For the listing A, B, C with A priced 150000, B priced 0 and C with a
\* fallback price alone, the snapshot is A at position 1 and C at position 2
C15_OrderPreservingSubsequence ==
    pc = "stored" =>
        /\ DOMAIN products_cache = 1..Cardinality(Included)
        /\ \A n \in Included :
              /\ products_cache[Rank(n)].product_id = items[n].product_id
              /\ products_cache[Rank(n)].offer_id = items[n].offer_id
        /\ (/\ items = << [product_id |-> 1, offer_id |-> "A1"],
                           [product_id |-> 2, offer_id |-> ""],
                           [product_id |-> 3, offer_id |-> "C3"] >>
            /\ DOMAIN prices_data = {1, 2, 3}
            /\ prices_data[1].price = [price |-> Num(FALSE, 150000, 0), old_price |-> None]
            /\ prices_data[2].price = [price |-> Num(FALSE, 0, 0), old_price |-> None]
            /\ prices_data[3].price = [price |-> None, old_price |-> Num(FALSE, 900, 0)])
              => /\ DOMAIN products_cache = {1, 2}
                 /\ products_cache[1].product_id = 1
                 /\ products_cache[1].price = 150000
                 /\ products_cache[2].product_id = 3
                 /\ products_cache[2].price = 900

C15_Witness ==
    /\ pc = "stored"
    /\ Len(items) = 3
    /\ items[1].product_id = 1
    /\ items[2].product_id = 2
    /\ items[3].product_id = 3
    /\ DOMAIN prices_data = {1, 2, 3}
    /\ prices_data[2].price.price = Num(FALSE, 0, 0)
    /\ prices_data[3].price.price = None
    /\ DOMAIN products_cache = {1, 2}
    /\ products_cache[1].price = 150000
    /\ products_cache[2].product_id = 3

\* C17: the product of a listed item without description record is named by
\* the offer code of the item when that is present and not empty, otherwise
\* by the placeholder built from the identifier, and its description is its
\* name
C17_NameWithoutRecord ==
    pc = "stored" =>
        \A k \in DOMAIN products_cache :
            products_cache[k].product_id \notin DOMAIN descriptions_data =>
                /\ products_cache[k].name =
                       IF products_cache[k].offer_id # ""
                       THEN products_cache[k].offer_id
                       ELSE "Tovar " \o ToString(products_cache[k].product_id)
                /\ products_cache[k].description = products_cache[k].name

C17_Witness ==
    /\ pc = "stored"
    /\ descriptions_data = EmptyDict
    /\ DOMAIN products_cache = {1, 2}
    /\ products_cache[1].name = "A1"
    /\ products_cache[1].description = "A1"
    /\ products_cache[2].offer_id = ""
    /\ products_cache[2].name = "Tovar 2"
    /\ products_cache[2].description = "Tovar 2"

-----------------------------------------------------------------------------
(* The same loop on one listed item with long and short texts *)

\* the text of n characters c
RECURSIVE Repeat(_, _)
Repeat(c, n) ==
    IF n = 0 THEN ""
    ELSE IF n = 1 THEN c
    ELSE Repeat(c, n \div 2) \o Repeat(c, n - (n \div 2))

\* the lengths around the limit of bot.py:105, and two short ones
TextLengths == {0, 1} \cup ((DescLimit - 1)..MaxText)

\* descriptions as v1/product/info/description answers them: plain text, and
\* the same text inside tags and before a line break
TextDescriptions ==
    { Repeat("d", n) : n \in TextLengths }
        \cup { "<b>" \o Repeat("d", n) \o "</b><br/>" : n \in TextLengths \ {0} }

TextNames == { Repeat("n", n) : n \in TextLengths \ {0} }

TextOfferCodes == {"", "A1", Repeat("o", MaxText)}

InitText ==
    /\ OZON_CLIENT_ID = "client"
    /\ OZON_API_KEY = "key"
    /\ products_cache = EmptyDict
    /\ pc = "form"
    /\ products_count_before = 0
    /\ products_count_after = 0
    /\ \E code \in TextOfferCodes :
           items = << [product_id |-> 1, offer_id |-> code] >>
    /\ product_ids = << 1 >>
    /\ prices_data = [id \in {1} |-> PricedItem(id)]
    /\ i = 0
    /\ descriptions_data \in
           {EmptyDict} \cup { [id \in {1} |-> [name |-> nm, description |-> d]] :
                                nm \in TextNames, d \in TextDescriptions }
    /\ j = 0
    /\ products_data = << >>
    /\ products = EmptyDict
    /\ product_counter = 0
    /\ shown = 0
    /\ resp = NoResp
    /\ calls = << >>
    /\ failed = FALSE
    /\ afterFailure = FALSE
    /\ again = FALSE
    /\ walk = NoWalk
    /\ asked = NoPress
    /\ batches = << >>
    /\ price_record = NoPriceItem
    /\ price = 0

SpecText == InitText /\ [][NextForm]_vars

\* the sanitized description of the record of product_id, "" without record
Sanitized(product_id) ==
    IF product_id \in DOMAIN descriptions_data
    THEN clean_description(descriptions_data[product_id].description)
    ELSE ""

\* C16: every product of the snapshot has a description of at most 200
\* characters, be it the sanitized real description or the name used in its
\* place, and a real description of more than 200 characters after
\* sanitizing is stored with exactly 200 characters, the ellipsis included
C16_DescriptionAtMost200 ==
    pc = "stored" =>
        \A k \in DOMAIN products_cache :
            /\ Len(products_cache[k].description) <= DescLimit
            /\ Len(Sanitized(products_cache[k].product_id)) > DescLimit
                  => Len(products_cache[k].description) = DescLimit

-----------------------------------------------------------------------------
(* Properties of the requests of _get_products_prices_v5 *)

\* the batches one after the other
RECURSIVE Concat(_)
Concat(bs) == IF bs = << >> THEN << >> ELSE Head(bs) \o Concat(Tail(bs))

\* C18: when _get_products_prices_v5 has returned, it has sent
\* ceil(n / 50) requests for its n identifiers, each with at most 50
\* identifiers and each but the last with exactly 50, and the batches in the
\* order sent concatenate to the list of identifiers, so that every
\* identifier went out in exactly one request (none for no identifiers)
C18_Batching ==
    pc = "descriptions" =>
        /\ Len(batches) = (Len(product_ids) + BatchSize - 1) \div BatchSize
        /\ \A k \in DOMAIN batches :
              /\ Len(batches[k]) <= BatchSize
              /\ k < Len(batches) => Len(batches[k]) = BatchSize
        /\ Concat(batches) = product_ids

-----------------------------------------------------------------------------
(* Properties of the remote calls of one refresh *)

\* the place of a call in the order listing, prices, descriptions
Stage(call) == IF call = "listing" THEN 1 ELSE IF call = "prices" THEN 2 ELSE 3

\* C19: at every moment of a refresh the calls issued so far are the listing
\* call first and once, then price batches, then description lookups, with a
\* price batch before the first description lookup; price and description
\* calls follow only a listing answer of status 200 with identifiers, and
\* after a failed listing call or one without identifiers nothing follows
C19_CallOrder ==
    /\ \A a, b \in DOMAIN calls : a < b => Stage(calls[a]) <= Stage(calls[b])
    /\ \A a \in DOMAIN calls : calls[a] = "listing" <=> a = 1
    /\ \A b \in DOMAIN calls :
          calls[b] = "description" => \E a \in 1..(b - 1) : calls[a] = "prices"
    /\ Len(calls) > 1 =>
          /\ resp.listing.kind = "ok"
          /\ \E n \in DOMAIN resp.listing.items :
                resp.listing.items[n].product_id # NoKey
    /\ (\/ resp.listing.kind \in FailKinds
        \/ /\ resp.listing.kind = "ok"
           /\ \A n \in DOMAIN resp.listing.items :
                 resp.listing.items[n].product_id = NoKey)
          => calls = << "listing" >>

C19_Witness ==
    /\ pc = "done"
    /\ calls = << "listing", "prices", "description", "description" >>
    /\ Len(resp.listing.items) = 2

-----------------------------------------------------------------------------
(* Properties of the readers *)

\* C20: a step of show_products or of a press of next or prev, which is a
\* step that moves the position shown and leaves the refresh where it is,
\* leaves products_cache as it was: same size, same product at every
\* position, also when the position asked for is not found
C20_ReadersLeaveStore ==
    [][(pc' = pc /\ reader' # reader) => products_cache' = products_cache]_vars

C20_Witness ==
    /\ asked # NoPress
    /\ asked > Size(products_cache)
    /\ walk.dir = "prev"
    /\ shown = 0
    /\ Size(products_cache) >= 1

====
